---- MODULE Spec2Model ----
(***************************************************************************)
(* Model of the OpenClaw MCP bridge (hand-rolled Streamable HTTP variant): *)
(* bearer authentication, JSON-RPC envelope validation, method dispatch,   *)
(* the three tools, the agent subprocess and the SSE heartbeat stream.     *)
(*                                                                         *)
(* JavaScript strings are sequences of one-character strings; a fixed      *)
(* fragment of a template literal is kept as one element of the sequence.  *)
(* A JavaScript value whose type matters is a tagged record (Undefined,    *)
(* Str(s), NumberArg).  Fields that the code only compares and echoes      *)
(* (method, tool name, id, jsonrpc) are plain strings, with "undefined"    *)
(* for an absent member.                                                   *)
(***************************************************************************)
EXTENDS Integers, Sequences, FiniteSets, TLC

VARIABLES
    sessions,   \* the process-wide Map: session id -> session record
    procs,      \* agent subprocesses: request number -> subprocess record
    streams,    \* GET /mcp streams: request number -> stream record
    memory,     \* the MEMORY.md file of the workspace
    fsReads,    \* number of times the memory file was looked up on disk
    nreq,       \* number of HTTP requests received on /mcp
    last,       \* the last HTTP exchange completed on /mcp
    sent,       \* request number -> number of HTTP responses sent for it
    spawns,     \* number of agent subprocesses launched so far
    sdk         \* the SDK variant's answer to the last tool call (SpecEq)

vars == <<sessions, procs, streams, memory, fsReads, nreq, last, sent, spawns, sdk>>

----------------------------------------------------------------------------
(* Bounds of the model. *)

MaxRequests == 2    \* HTTP requests received on /mcp in one behaviour
MaxChunks == 1      \* 'data' events of one subprocess
MaxBeats == 1       \* heartbeats written to one stream
MaxPieces == 11     \* pieces the memory file is assembled from (SpecMem)
MaxCalls == 1       \* tool calls compared between the two variants (SpecEq)

----------------------------------------------------------------------------
(* JavaScript values and string operations used by the code. *)

Undefined == [t |-> "undefined"]
Str(s) == [t |-> "string", v |-> s]
NumberArg == [t |-> "number", v |-> 5]

NoValue == "undefined"
Null == "null"

\* !x for the values above
Falsy(x) == \/ x.t = "undefined"
            \/ (x.t = "string" /\ x.v = <<>>)
            \/ (x.t = "number" /\ x.v = 0)

Min(a, b) == IF a <= b THEN a ELSE b

StartsWith(s, p) == /\ Len(s) >= Len(p)
                    /\ SubSeq(s, 1, Len(p)) = p

Substring(s, n) == SubSeq(s, n + 1, Len(s))

LowerChar(c) == CASE c = "A" -> "a"
                  [] c = "B" -> "b"
                  [] OTHER -> c

ToLowerCase(s) == [i \in 1..Len(s) |-> LowerChar(s[i])]

Includes(s, q) == \E i \in 0..(Len(s) - Len(q)) : SubSeq(s, i + 1, i + Len(q)) = q

IsSpace(c) == c \in {" ", "\n", "\t"}

RECURSIVE TrimStart(_)
TrimStart(s) == IF s # <<>> /\ IsSpace(Head(s)) THEN TrimStart(Tail(s)) ELSE s

RECURSIVE TrimEnd(_)
TrimEnd(s) == IF s # <<>> /\ IsSpace(s[Len(s)])
              THEN TrimEnd(SubSeq(s, 1, Len(s) - 1))
              ELSE s

Trim(s) == TrimEnd(TrimStart(s))

\* s.split("\n"): always at least one element
RECURSIVE SplitAcc(_, _, _)
SplitAcc(s, cur, acc) ==
    IF s = <<>> THEN Append(acc, cur)
    ELSE IF Head(s) = "\n" THEN SplitAcc(Tail(s), <<>>, Append(acc, cur))
    ELSE SplitAcc(Tail(s), Append(cur, Head(s)), acc)

Split(s) == SplitAcc(s, <<>>, <<>>)

\* a.join("\n")
RECURSIVE Join(_)
Join(a) == IF a = <<>> THEN <<>>
           ELSE IF Len(a) = 1 THEN a[1]
           ELSE a[1] \o <<"\n">> \o Join(Tail(a))

\* a.slice(0, n)
Slice(a, n) == SubSeq(a, 1, Min(n, Len(a)))

\* message.replace(/"/g, '\\"')
RECURSIVE EscapeQuotes(_)
EscapeQuotes(s) ==
    IF s = <<>> THEN <<>>
    ELSE IF Head(s) = "\"" THEN <<"\\", "\"">> \o EscapeQuotes(Tail(s))
    ELSE <<Head(s)>> \o EscapeQuotes(Tail(s))

----------------------------------------------------------------------------
(* Configuration and static tables. *)

\* config.apiKey: non-empty, the process exits at start-up otherwise
apiKey == <<"k", "1">>

BearerPrefix == <<"B", "e", "a", "r", "e", "r", " ">>

PROTOCOL_VERSION == "2024-11-05"

TOOLS == <<"ask", "memory_search", "sessions_status">>

MaxResults == 10

----------------------------------------------------------------------------
(* HTTP responses and JSON-RPC envelopes. *)

NoBody == [empty |-> TRUE]

Response(status, body) == [status |-> status, body |-> body]

ErrorEnvelope(id, code, message) ==
    [jsonrpc |-> "2.0", id |-> id, error |-> [code |-> code, message |-> message]]

ResultEnvelope_NullId(id, result) ==
    [jsonrpc |-> "2.0", id |-> Null, result |-> result]

ResultEnvelope(id, result) ==
    [jsonrpc |-> "2.0", id |-> id, result |-> result]

EmptyObject == [n \in {} |-> n]

----------------------------------------------------------------------------
(* authenticate: the middleware in front of POST /mcp and GET /mcp.        *)
(* Returns Next when the request goes on to the route handler, the         *)
(* response sent otherwise.                                                *)

Reject401 == Response(401, ErrorEnvelope(Null, -32600,
                    <<"Missing or invalid authorization header">>))

Reject403 == Response(403, ErrorEnvelope(Null, -32600, <<"Invalid API key">>))

PassOn == [status |-> 0, body |-> NoBody]

authenticate_NoTokenCheck(authHeader) ==
    IF Falsy(authHeader) \/ ~StartsWith(authHeader.v, BearerPrefix)
    THEN Reject401
    ELSE PassOn

authenticate_AllowAll(authHeader) == PassOn

authenticate(authHeader) ==
    IF Falsy(authHeader) \/ ~StartsWith(authHeader.v, BearerPrefix)
    THEN Reject401
    ELSE IF Substring(authHeader.v, 7) # apiKey
         THEN Reject403
         ELSE PassOn

----------------------------------------------------------------------------
(* Outcome of a call: a returned value, a thrown Error (its message), or a  *)
(* promise still pending on a subprocess.                                  *)

Return(v) == [kind |-> "return", value |-> v]
Throw(m) == [kind |-> "throw", message |-> m]
Await(tool, argv) == [kind |-> "await", tool |-> tool, argv |-> argv]

----------------------------------------------------------------------------
(* searchMemory: case-insensitive line search of MEMORY.md.                *)
(* fs is the file as the disk holds it at the time of the call.            *)

AbsentFile == [exists |-> FALSE, readable |-> FALSE, content |-> <<>>]
File(content) == [exists |-> TRUE, readable |-> TRUE, content |-> content]
\* the file at the time of one call: readFileSync may fail on a file that
\* existsSync has seen (removed in between, descriptor or I/O error)
IoOutcomes == {TRUE, FALSE}

ReadAttempt(file, io) == [file EXCEPT !.readable = @ /\ io]

NotFoundText == <<"MEMORY.md nao encontrado no workspace">>

NoMatchText(query) ==
    <<"Nenhum resultado encontrado para \"">> \o query \o <<"\" na memoria.">>

Matches(line, query) == Includes(ToLowerCase(line), ToLowerCase(query))

searchMemory_CountsShown(query, fs) ==
    IF ~fs.exists THEN Return(NotFoundText)
    ELSE IF ~fs.readable
         THEN Throw(<<"ENOENT: no such file or directory, open MEMORY.md">>)
    ELSE IF query.t # "string"
         THEN Throw(<<"query.toLowerCase is not a function">>)
    ELSE LET lines == Split(fs.content)
             matches == Slice(SelectSeq(lines, LAMBDA line : Matches(line, query.v)),
                              MaxResults)
         IN  IF Len(matches) = 0
             THEN Return(NoMatchText(query.v))
             ELSE Return(<<"Encontrados ", ToString(Len(matches)),
                           " resultados:\n\n">>
                         \o Join(matches))

searchMemory_NoExistsCheck(query, fs) ==
    IF ~fs.exists \/ ~fs.readable
    THEN Throw(<<"ENOENT: no such file or directory, open MEMORY.md">>)
    ELSE IF query.t # "string"
         THEN Throw(<<"query.toLowerCase is not a function">>)
    ELSE LET lines == Split(fs.content)
             matches == SelectSeq(lines, LAMBDA line : Matches(line, query.v))
         IN  IF Len(matches) = 0
             THEN Return(NoMatchText(query.v))
             ELSE Return(<<"Encontrados ", ToString(Len(matches)),
                           " resultados:\n\n">>
                         \o Join(Slice(matches, MaxResults)))

searchMemory(query, fs) ==
    IF ~fs.exists THEN Return(NotFoundText)
    ELSE IF ~fs.readable
         THEN Throw(<<"ENOENT: no such file or directory, open MEMORY.md">>)
    ELSE IF query.t # "string"
         THEN Throw(<<"query.toLowerCase is not a function">>)
    ELSE LET lines == Split(fs.content)
             matches == SelectSeq(lines, LAMBDA line : Matches(line, query.v))
         IN  IF Len(matches) = 0
             THEN Return(NoMatchText(query.v))
             ELSE Return(<<"Encontrados ", ToString(Len(matches)),
                           " resultados:\n\n">>
                         \o Join(Slice(matches, MaxResults)))

----------------------------------------------------------------------------
(* sendToOpenClaw / listSessions: the promise around one agent subprocess. *)

\* the executor of sendToOpenClaw, up to the spawn
sendToOpenClaw(message) ==
    IF message.t # "string"
    THEN Throw(<<"message.replace is not a function">>)
    ELSE Await("ask", <<"sessions", "send", "--message">> \o EscapeQuotes(message.v))

listSessions == Await("sessions_status", <<"sessions", "list", "--limit", "10">>)

\* proc.on('close', code)
OnClose(code, stdout, stderr) ==
    IF code # 0
    THEN Throw(<<"OpenClaw exited with code ", ToString(code), ": ">> \o stderr)
    ELSE Return(Trim(stdout))

\* proc.on('error', err)
OnError(errMessage) == Throw(<<"Failed to spawn openclaw: ">> \o errMessage)

----------------------------------------------------------------------------
(* handleRequest: the dispatcher.                                          *)

Object(name, arguments, protocolVersion, clientInfo) ==
    [t |-> "object", name |-> name, arguments |-> arguments,
     protocolVersion |-> protocolVersion, clientInfo |-> clientInfo]

Arguments(message, query) == [t |-> "object", message |-> message, query |-> query]

\* params || {}
ParamsOrEmpty(params) ==
    IF Falsy(params) THEN Object(NoValue, Undefined, NoValue, NoValue) ELSE params

\* params.arguments || {}
ArgumentsOrEmpty(arguments) ==
    IF Falsy(arguments) THEN Arguments(Undefined, Undefined) ELSE arguments

TextContent(text) == <<[type |-> "text", text |-> text]>>

\* the switch over the tool name, inside the try block
callTool(toolName, toolArgs, fs) ==
    CASE toolName = "ask" ->
           IF Falsy(toolArgs.message)
           THEN [outcome |-> Throw(<<"Missing 'message' argument">>), reads |-> 0]
           ELSE [outcome |-> sendToOpenClaw(toolArgs.message), reads |-> 0]
      [] toolName = "memory_search" ->
           IF Falsy(toolArgs.query)
           THEN [outcome |-> Throw(<<"Missing 'query' argument">>), reads |-> 0]
           ELSE [outcome |-> searchMemory(toolArgs.query, fs), reads |-> 1]
      [] toolName = "sessions_status" ->
           [outcome |-> listSessions, reads |-> 0]
      [] OTHER ->
           [outcome |-> Throw(<<"Unknown tool: ", toolName>>), reads |-> 0]

toolReply_RpcError(id, outcome) ==
    IF outcome.kind = "return"
    THEN ResultEnvelope(id,
           [content |-> TextContent(IF outcome.value = <<>>
                                    THEN <<"Success">>
                                    ELSE outcome.value)])
    ELSE ErrorEnvelope(id, -32603, outcome.message)

\* the two return statements of the tools/call branch: after the switch and
\* in the catch block
toolReply(id, outcome) ==
    IF outcome.kind = "return"
    THEN ResultEnvelope(id,
           [content |-> TextContent(IF outcome.value = <<>>
                                    THEN <<"Success">>
                                    ELSE outcome.value)])
    ELSE ResultEnvelope(id,
           [content |-> TextContent(<<"Error: ">> \o outcome.message),
            isError |-> TRUE])

NullResponse == [null |-> TRUE]
PendingResponse == [pending |-> TRUE]
NoSpawn == [kind |-> "none"]

Handled(response, session, spawn, reads) ==
    [response |-> response, session |-> session, spawn |-> spawn, reads |-> reads]

MethodNotFound_InvalidRequest(method, id) ==
    ErrorEnvelope(id, -32600, <<"Method not found: ", method>>)

MethodNotFound(method, id) ==
    ErrorEnvelope(id, -32601, <<"Method not found: ", method>>)

\* sessionId is the value randomUUID() returns in the initialize branch
handleRequest(method, params, id, sessionId, fs) ==
    CASE method = "initialize" ->
           Handled(ResultEnvelope(id, [protocolVersion |-> PROTOCOL_VERSION,
                                       capabilities |-> "tools",
                                       serverInfo |-> "mcp-server",
                                       sessionId |-> sessionId]),
                   {<<sessionId, [initialized |-> TRUE,
                                  protocolVersion |-> params.protocolVersion,
                                  clientInfo |-> params.clientInfo]>>},
                   NoSpawn, 0)
      [] method = "initialized" ->
           Handled(NullResponse, {}, NoSpawn, 0)
      [] method = "tools/list" ->
           Handled(ResultEnvelope(id, [tools |-> TOOLS]), {}, NoSpawn, 0)
      [] method = "tools/call" ->
           LET call == callTool(params.name, ArgumentsOrEmpty(params.arguments), fs)
           IN  IF call.outcome.kind = "await"
               THEN Handled(PendingResponse, {}, call.outcome, call.reads)
               ELSE Handled(toolReply(id, call.outcome), {}, NoSpawn, call.reads)
      [] method = "ping" ->
           Handled(ResultEnvelope(id, EmptyObject), {}, NoSpawn, 0)
      [] OTHER ->
           Handled(MethodNotFound(method, id), {}, NoSpawn, 0)

----------------------------------------------------------------------------
(* The route handlers of /mcp.                                             *)

ValidVersion_Any(jsonrpc) == TRUE

ValidVersion(jsonrpc) == jsonrpc = "2.0"

InvalidVersion == Response(400, ErrorEnvelope(Null, -32600,
                                               <<"Invalid JSON-RPC version">>))

\* res.status(202).end() for a null response, res.json(response) otherwise
Reply(response) ==
    IF response = NullResponse THEN Response(202, NoBody) ELSE Response(200, response)

\* What the collaborator did for one request, kept beside the exchange so
\* that a response can be compared with it.
NoCollab == [kind |-> "none"]
ReadDone(ok) == [kind |-> "read", ok |-> ok]
Closed(code) == [kind |-> "close", code |-> code]
SpawnFailed == [kind |-> "error"]

Exchange(n, verb, req, res, collab) ==
    [n |-> n, verb |-> verb, req |-> req, res |-> res, collab |-> collab]

NoExchange == Exchange(0, "none", NoBody, Response(0, NoBody), NoCollab)

NoSdk == [none |-> TRUE]

Uuids == 1..MaxRequests

Spawned(req, spawn) ==
    [req |-> req, tool |-> spawn.tool, argv |-> spawn.argv,
     stdout |-> <<>>, stderr |-> <<>>, ndata |-> 0,
     promise |-> "pending", responses |-> 0,
     wrote |-> [out |-> <<>>, err |-> <<>>]]

AddSessions_Replace(map, entries) ==
    [k \in {e[1] : e \in entries} |-> (CHOOSE e \in entries : e[1] = k)[2]]

AddSessions(map, entries) ==
    [k \in DOMAIN map \cup {e[1] : e \in entries} |->
        IF \E e \in entries : e[1] = k
        THEN (CHOOSE e \in entries : e[1] = k)[2]
        ELSE map[k]]

Put(map, k, v) == [x \in DOMAIN map \cup {k} |-> IF x = k THEN v ELSE map[x]]

Remove(map, k) == [x \in DOMAIN map \ {k} |-> map[x]]

RepliesNow_NoAwait(h) == TRUE

\* await handleRequest(...): the handler goes on to res.json / res.end only
\* once the promise of the tool is settled
RepliesNow(h) == h.response # PendingResponse

\* app.post("/mcp", authenticate, async (req, res) => ...), up to the first
\* await that suspends it.  handleRequest catches every exception of a tool
\* itself, so the handler's own catch (HTTP 500, code -32603) has no caller.
PostMcp(req) ==
    /\ nreq < MaxRequests
    /\ nreq' = nreq + 1
    /\ UNCHANGED <<streams, memory, sdk>>
    /\ LET auth == authenticate(req.hdr)
       IN  IF auth # PassOn
           THEN /\ last' = Exchange(nreq + 1, "POST", req, auth, NoCollab)
                /\ sent' = Put(sent, nreq + 1, 1)
                /\ UNCHANGED <<sessions, procs, fsReads, spawns>>
           ELSE IF ~ValidVersion(req.jsonrpc)
           THEN /\ last' = Exchange(nreq + 1, "POST", req, InvalidVersion, NoCollab)
                /\ sent' = Put(sent, nreq + 1, 1)
                /\ UNCHANGED <<sessions, procs, fsReads, spawns>>
           ELSE \E sessionId \in (IF req.method = "initialize"
                                  THEN Uuids \ DOMAIN sessions
                                  ELSE {0}) :
                \E io \in (IF req.method = "tools/call" /\ memory.exists
                           THEN IoOutcomes
                           ELSE {TRUE}) :
                  LET h == handleRequest(req.method, ParamsOrEmpty(req.params),
                                         req.id, sessionId, ReadAttempt(memory, io))
                  IN  /\ sessions' = AddSessions(sessions, h.session)
                      /\ fsReads' = fsReads + h.reads
                      /\ IF h.spawn # NoSpawn
                         THEN /\ procs' = Put(procs, nreq + 1, Spawned(req, h.spawn))
                              /\ spawns' = spawns + 1
                         ELSE /\ procs' = procs
                              /\ spawns' = spawns
                      /\ IF RepliesNow(h)
                         THEN /\ last' = Exchange(nreq + 1, "POST", req,
                                        Reply(h.response),
                                        IF h.reads > 0 /\ memory.exists
                                        THEN ReadDone(io)
                                        ELSE NoCollab)
                              /\ sent' = Put(sent, nreq + 1, 1)
                         ELSE /\ UNCHANGED last
                              /\ sent' = Put(sent, nreq + 1, 0)

\* the continuation of the handler once the awaited promise is settled
Settle(n, outcome, collab) ==
    /\ last' = Exchange(n, "POST", procs[n].req,
                        Reply(toolReply(procs[n].req.id, outcome)), collab)
    /\ sent' = [sent EXCEPT ![n] = @ + 1]

Settles_Always(proc) == TRUE

\* new Promise(...): only the first resolve or reject settles it
Settles(proc) == proc.promise = "pending"

\* resolve / reject called from an event handler of subprocess n
SettleOnce(n, outcome, collab) ==
    IF Settles(procs[n])
    THEN Settle(n, outcome, collab)
    ELSE UNCHANGED <<last, sent>>

OnStdoutData_SharedBuffer(ps, n, data) ==
    [k \in DOMAIN ps |-> [ps[k] EXCEPT !.stdout = @ \o data]]

\* (data) => stdout += data.toString(), on the buffer of this call
OnStdoutData(ps, n, data) == [ps EXCEPT ![n].stdout = @ \o data]

\* (data) => stderr += data.toString(), on the buffer of this call
OnStderrData(ps, n, data) == [ps EXCEPT ![n].stderr = @ \o data]

StdoutChunks == {<<" ", "o", "\n">>}
StderrChunks == {<<"e">>}
ExitCodes == {0, 1}
SpawnErrors == {<<"spawn openclaw ENOENT">>}
SpawnExitCodes == {-2}

\* proc.stdout.on('data', ...)
ProcStdout(n) ==
    /\ n \in DOMAIN procs
    /\ procs[n].promise = "pending"
    /\ procs[n].ndata < MaxChunks
    /\ \E data \in StdoutChunks :
         procs' = [OnStdoutData(procs, n, data) EXCEPT
                      ![n].ndata = @ + 1, ![n].wrote.out = @ \o data]
    /\ UNCHANGED <<sessions, streams, memory, fsReads, nreq, last, sent, spawns, sdk>>

\* proc.stderr.on('data', ...)
ProcStderr(n) ==
    /\ n \in DOMAIN procs
    /\ procs[n].promise = "pending"
    /\ procs[n].ndata < MaxChunks
    /\ \E data \in StderrChunks :
         procs' = [OnStderrData(procs, n, data) EXCEPT
                      ![n].ndata = @ + 1, ![n].wrote.err = @ \o data]
    /\ UNCHANGED <<sessions, streams, memory, fsReads, nreq, last, sent, spawns, sdk>>

\* proc.on('error', ...): the agent could not be spawned, so it has written
\* nothing; Node still emits 'close' for it afterwards
ProcError(n) ==
    /\ n \in DOMAIN procs
    /\ procs[n].promise = "pending"
    /\ procs[n].ndata = 0
    /\ \E err \in SpawnErrors : SettleOnce(n, OnError(err), SpawnFailed)
    /\ procs' = [procs EXCEPT ![n].promise = "rejected", ![n].responses = @ + 1]
    /\ UNCHANGED <<sessions, streams, memory, fsReads, nreq, spawns, sdk>>

\* proc.on('close', ...) of a subprocess that ran
ProcClose(n) ==
    /\ n \in DOMAIN procs
    /\ procs[n].promise = "pending"
    /\ \E code \in ExitCodes :
         SettleOnce(n, OnClose(code, procs[n].stdout, procs[n].stderr),
                    Closed(code))
    /\ procs' = Remove(procs, n)
    /\ UNCHANGED <<sessions, streams, memory, fsReads, nreq, spawns, sdk>>

\* proc.on('close', ...) after 'error': the handler rejects a promise that is
\* settled already, which changes nothing
ProcCloseAfterError(n) ==
    /\ n \in DOMAIN procs
    /\ procs[n].promise = "rejected"
    /\ \E code \in SpawnExitCodes :
         SettleOnce(n, OnClose(code, procs[n].stdout, procs[n].stderr),
                    Closed(code))
    /\ procs' = Remove(procs, n)
    /\ UNCHANGED <<sessions, streams, memory, fsReads, nreq, spawns, sdk>>

----------------------------------------------------------------------------
(* GET /mcp: the SSE stream and its heartbeat.                             *)

EventStream == [sse |-> TRUE]

\* what the handler sets up: headers flushed, setInterval started
OpenStream == [open |-> TRUE, keepAlive |-> "active", cleared |-> 0, beats |-> 0]

OnReqClose_NoClear(stream) == [stream EXCEPT !.open = FALSE]

\* req.on('close', ...): clearInterval(keepAlive)
OnReqClose(stream) ==
    [stream EXCEPT !.open = FALSE, !.keepAlive = "cleared", !.cleared = @ + 1]

\* app.get("/mcp", authenticate, (req, res) => ...)
GetMcp(req) ==
    /\ nreq < MaxRequests
    /\ nreq' = nreq + 1
    /\ UNCHANGED <<sessions, procs, memory, fsReads, spawns, sdk>>
    /\ sent' = Put(sent, nreq + 1, 1)
    /\ LET auth == authenticate(req.hdr)
       IN  IF auth # PassOn
           THEN /\ last' = Exchange(nreq + 1, "GET", req, auth, NoCollab)
                /\ UNCHANGED streams
           ELSE /\ streams' = Put(streams, nreq + 1, OpenStream)
                /\ last' = Exchange(nreq + 1, "GET", req, Response(200, EventStream),
                                NoCollab)

\* the setInterval callback: res.write(': keepalive\n\n')
KeepAlive(n) ==
    /\ n \in DOMAIN streams
    /\ streams[n].keepAlive = "active"
    /\ streams[n].beats < MaxBeats
    /\ streams' = [streams EXCEPT ![n].beats = @ + 1]
    /\ UNCHANGED <<sessions, procs, memory, fsReads, nreq, last, sent, spawns, sdk>>

\* the 'close' event of the request: emitted once, when the connection of
\* the stream is torn down
ReqClose(n) ==
    /\ n \in DOMAIN streams
    /\ streams[n].open
    /\ streams' = [streams EXCEPT ![n] = OnReqClose(@)]
    /\ UNCHANGED <<sessions, procs, memory, fsReads, nreq, last, sent, spawns, sdk>>

----------------------------------------------------------------------------
(* Requests the clients send.                                              *)

GoodHeader == Str(BearerPrefix \o apiKey)

BadHeaders == {Undefined,
               Str(<<"b", "e", "a", "r", "e", "r", " ">> \o apiKey),
               Str(BearerPrefix \o <<"k", "2">>)}

Headers == {GoodHeader} \cup BadHeaders

Ids == {NoValue, "1", "2"}

MessageArgs == {Undefined, Str(<<>>), Str(<<"h", "\"">>), NumberArg}

QueryArgs == {Undefined, Str(<<>>), Str(<<"a">>), NumberArg}

AskCall(message) == Object("ask", Arguments(message, Undefined), NoValue, NoValue)

SearchCall(query) ==
    Object("memory_search", Arguments(Undefined, query), NoValue, NoValue)

StatusCall == Object("sessions_status", Undefined, NoValue, NoValue)

ToolCalls ==
    {AskCall(m) : m \in MessageArgs}
    \cup {SearchCall(q) : q \in QueryArgs}
    \cup {StatusCall,
          Object("shell", Undefined, NoValue, NoValue),
          Object(NoValue, Undefined, NoValue, NoValue)}

InitializeBody ==
    <<"initialize", Object(NoValue, Undefined, PROTOCOL_VERSION, "claude")>>

Bodies ==
    {InitializeBody,
     <<"initialize", Undefined>>,
     <<"initialized", Undefined>>,
     <<"tools/list", Undefined>>,
     <<"ping", Undefined>>,
     <<"notifications/initialized", Undefined>>}
    \cup {<<"tools/call", p>> : p \in ToolCalls}

\* the bodies that act on the server or its collaborators when dispatched,
\* and one of each other outcome of the dispatcher
ActingBodies ==
    {InitializeBody,
     <<"initialized", Undefined>>,
     <<"ping", Undefined>>,
     <<"notifications/initialized", Undefined>>,
     <<"tools/call", AskCall(Str(<<"h", "\"">>))>>,
     <<"tools/call", SearchCall(Str(<<"a">>))>>,
     <<"tools/call", StatusCall>>}

PostRequest(hdr, jsonrpc, id, body) ==
    [hdr |-> hdr, jsonrpc |-> jsonrpc, id |-> id, method |-> body[1], params |-> body[2]]

\* the bodies that only a dispatched initialize or tools/call acts upon
EffectBodies ==
    {InitializeBody,
     <<"tools/call", AskCall(Str(<<"h", "\"">>))>>,
     <<"tools/call", SearchCall(Str(<<"a">>))>>,
     <<"tools/call", StatusCall>>}

PostRequests ==
    {PostRequest(GoodHeader, "2.0", id, body) : id \in Ids, body \in ActingBodies}
    \cup {PostRequest(GoodHeader, "2.0", "1", body) : body \in Bodies}
    \cup {PostRequest(GoodHeader, "1.0", "1", body) : body \in ActingBodies}
    \cup {PostRequest(GoodHeader, NoValue, "1", <<"ping", Undefined>>)}
    \cup {PostRequest(hdr, "2.0", "1", body) :
              hdr \in BadHeaders, body \in EffectBodies}

GetRequests == {[hdr |-> hdr] : hdr \in Headers}

MemoryFiles == {AbsentFile, File(<<"A", "\n", "b">>)}

----------------------------------------------------------------------------
(* The server. *)

Init ==
    /\ sessions = <<>>
    /\ procs = <<>>
    /\ streams = <<>>
    /\ memory \in MemoryFiles
    /\ fsReads = 0
    /\ nreq = 0
    /\ last = NoExchange
    /\ sent = <<>>
    /\ spawns = 0
    /\ sdk = NoSdk

Next ==
    \/ \E req \in PostRequests : PostMcp(req)
    \/ \E req \in GetRequests : GetMcp(req)
    \/ \E n \in 1..MaxRequests : ProcStdout(n)
    \/ \E n \in 1..MaxRequests : ProcStderr(n)
    \/ \E n \in 1..MaxRequests : ProcError(n)
    \/ \E n \in 1..MaxRequests : ProcClose(n)
    \/ \E n \in 1..MaxRequests : ProcCloseAfterError(n)
    \/ \E n \in 1..MaxRequests : KeepAlive(n)
    \/ \E n \in 1..MaxRequests : ReqClose(n)

Spec == Init /\ [][Next]_vars

----------------------------------------------------------------------------
(* The memory search on its own: the file is any text assembled from at    *)
(* most MaxPieces pieces, or absent, and every request is a memory_search. *)

Pieces == {<<"A", "\n">>, <<"b">>}

RECURSIVE Contents(_)
Contents(n) ==
    IF n = 0 THEN {<<>>}
    ELSE LET shorter == Contents(n - 1)
         IN  shorter \cup {c \o p : c \in shorter, p \in Pieces}

SearchQueries == {Str(<<"a">>), Str(<<"B">>), Str(<<"b", "A">>)}

InitMem ==
    /\ sessions = <<>>
    /\ procs = <<>>
    /\ streams = <<>>
    /\ memory \in {AbsentFile} \cup {File(c) : c \in Contents(MaxPieces)}
    /\ fsReads = 0
    /\ nreq = 0
    /\ last = NoExchange
    /\ sent = <<>>
    /\ spawns = 0
    /\ sdk = NoSdk

NextMem ==
    \E q \in SearchQueries :
        PostMcp(PostRequest(GoodHeader, "2.0", "1", <<"tools/call", SearchCall(q)>>))

SpecMem == InitMem /\ [][NextMem]_vars

----------------------------------------------------------------------------
(* The SDK variant (server-mcp.js): the handler registered for             *)
(* CallToolRequestSchema. sendToOpenClaw, searchMemory and listSessions    *)
(* have the same text in both files (searchMemory is declared async here,  *)
(* so what it throws reaches the same catch through the await).            *)

\* args?.message and args?.query
OptionalArgs(args) ==
    IF args.t = "undefined" THEN Arguments(Undefined, Undefined) ELSE args

\* the switch over name, inside the try block of the handler
CallToolRequest(name, args, fs) ==
    CASE name = "ask" ->
           IF Falsy(OptionalArgs(args).message)
           THEN Throw(<<"Missing 'message' argument">>)
           ELSE sendToOpenClaw(args.message)
      [] name = "memory_search" ->
           IF Falsy(OptionalArgs(args).query)
           THEN Throw(<<"Missing 'query' argument">>)
           ELSE searchMemory(args.query, fs)
      [] name = "sessions_status" ->
           listSessions
      [] OTHER ->
           Throw(<<"Unknown tool: ", name>>)

CallToolResult_NoFallback(outcome) ==
    IF outcome.kind = "return"
    THEN [content |-> TextContent(outcome.value)]
    ELSE [content |-> TextContent(<<"Error: ">> \o outcome.message),
          isError |-> TRUE]

\* the two return statements of the handler
CallToolResult(outcome) ==
    IF outcome.kind = "return"
    THEN [content |-> TextContent(IF outcome.value = <<>>
                                  THEN <<"Success">>
                                  ELSE outcome.value)]
    ELSE [content |-> TextContent(<<"Error: ">> \o outcome.message),
          isError |-> TRUE]

\* what the agent subprocess does with one call: it fails to start, or it
\* ends with an exit code after writing its output
AgentOutcomes ==
    {[kind |-> "error", err |-> e] : e \in SpawnErrors}
    \cup {[kind |-> "close", code |-> c, stdout |-> o, stderr |-> e] :
            c \in ExitCodes, o \in {<<>>} \cup StdoutChunks,
            e \in {<<>>} \cup StderrChunks}

\* result = await <promise>: the outcome once the subprocess has ended
Awaited(outcome, agent) ==
    IF outcome.kind # "await" THEN outcome
    ELSE IF agent.kind = "error" THEN OnError(agent.err)
    ELSE OnClose(agent.code, agent.stdout, agent.stderr)

ToolNames == {"ask", "memory_search", "sessions_status", "shell"}

ToolArguments ==
    {Undefined} \cup {Arguments(m, q) : m \in MessageArgs, q \in QueryArgs}

\* one tools/call given to both variants, with the same file on disk and
\* the same behaviour of the agent
CallBoth(name, arguments, io, agent) ==
    /\ nreq < MaxCalls
    /\ LET params == Object(name, arguments, NoValue, NoValue)
           req == PostRequest(GoodHeader, "2.0", "1", <<"tools/call", params>>)
           fs == ReadAttempt(memory, io)
           call == callTool(params.name, ArgumentsOrEmpty(params.arguments), fs)
           answer == CallToolRequest(params.name, params.arguments, fs)
       IN  /\ last' = Exchange(nreq + 1, "POST", req,
                               Reply(toolReply(req.id, Awaited(call.outcome, agent))),
                               IF call.outcome.kind = "await"
                               THEN (IF agent.kind = "error"
                                     THEN SpawnFailed ELSE Closed(agent.code))
                               ELSE IF call.reads > 0 /\ memory.exists
                               THEN ReadDone(io) ELSE NoCollab)
           /\ sdk' = [params |-> params, agent |-> agent,
                      result |-> CallToolResult(Awaited(answer, agent))]
           /\ fsReads' = fsReads + call.reads
           /\ spawns' = spawns + (IF call.outcome.kind = "await" THEN 1 ELSE 0)
    /\ nreq' = nreq + 1
    /\ sent' = Put(sent, nreq + 1, 1)
    /\ UNCHANGED <<sessions, procs, streams, memory>>

InitEq == Init

NextEq ==
    \E name \in ToolNames : \E arguments \in ToolArguments :
        \E io \in IoOutcomes : \E agent \in AgentOutcomes :
            CallBoth(name, arguments, io, agent)

SpecEq == InitEq /\ [][NextEq]_vars

----------------------------------------------------------------------------
(* Vocabulary of the properties, stated on the requests and responses      *)
(* themselves rather than through the operators of the server.             *)

HasBearerShape(hdr) ==
    /\ hdr.t = "string"
    /\ Len(hdr.v) >= 7
    /\ \A i \in 1..7 : hdr.v[i] = BearerPrefix[i]

Token(hdr) == [i \in 1..(Len(hdr.v) - 7) |-> hdr.v[i + 7]]

Authorized(hdr) == HasBearerShape(hdr) /\ Token(hdr) = apiKey

IsEnvelope(body) == "jsonrpc" \in DOMAIN body

IsError(body) == "error" \in DOMAIN body

IsResult(body) == "result" \in DOMAIN body

OnMcp(x) == x.verb \in {"POST", "GET"}

\* the exchange answers a POST that passed authentication and validation
Dispatched(x) ==
    /\ x.verb = "POST"
    /\ Authorized(x.req.hdr)
    /\ x.req.jsonrpc = "2.0"

KnownMethods == {"initialize", "initialized", "tools/list", "tools/call", "ping"}

\* the request received in the step that has just been taken (nreq' # nreq):
\* it is either suspended on its subprocess or answered
StepRequest == IF nreq' \in DOMAIN procs' THEN procs'[nreq'].req ELSE last'.req

StepVerb == IF nreq' \in DOMAIN procs' THEN "POST" ELSE last'.verb

NoDispatcherEffect ==
    /\ sessions' = sessions
    /\ procs' = procs
    /\ fsReads' = fsReads
    /\ streams' = streams

----------------------------------------------------------------------------
(* C1: on POST /mcp and GET /mcp, a header that is absent or not of the    *)
(* shape "Bearer ..." is answered 401; a bearer header whose token is not  *)
(* the configured secret is answered 403; with the secret the request      *)
(* goes on to the route handler (it is answered neither 401 nor 403, and   *)
(* only such requests are ever suspended on a subprocess or hold a stream).*)
C1_AuthStatus ==
    /\ OnMcp(last) =>
         /\ ~HasBearerShape(last.req.hdr) => last.res.status = 401
         /\ (HasBearerShape(last.req.hdr) /\ Token(last.req.hdr) # apiKey)
               => last.res.status = 403
         /\ Authorized(last.req.hdr) => last.res.status \in {200, 202, 400}
    /\ \A n \in DOMAIN procs : Authorized(procs[n].req.hdr)

C1_Witness ==
    /\ last.verb = "POST"
    /\ HasBearerShape(last.req.hdr)
    /\ Token(last.req.hdr) # apiKey
    /\ last.res.status = 403

----------------------------------------------------------------------------
(* C2: a request on /mcp whose bearer token is missing or differs from the *)
(* secret has no dispatcher effect: the step that receives it adds no      *)
(* session record, spawns no subprocess, does not look up the memory file  *)
(* and starts no heartbeat timer.                                          *)
C2_NoEffectUnauthenticated ==
    [][(nreq' # nreq /\ ~Authorized(StepRequest.hdr)) => NoDispatcherEffect]_vars

C2_Witness ==
    /\ last.verb = "POST"
    /\ ~Authorized(last.req.hdr)
    /\ last.req.method = "initialize"
    /\ last.n = nreq
    /\ sessions = <<>>

----------------------------------------------------------------------------
(* C3, as claimed: every envelope sent in answer to a POST /mcp carries    *)
(* the id of the request envelope.                                         *)
C3_Original_EveryEnvelopeEchoesId ==
    (last.verb = "POST" /\ IsEnvelope(last.res.body))
        => last.res.body.id = last.req.id

(* C3, amended: every envelope the dispatcher produces (result or error,   *)
(* any method, any outcome) carries the id of the request; the envelopes   *)
(* of the rejections in front of the dispatcher (401, 403 and the 400 of   *)
(* an invalid version) carry id null whatever the request's id.            *)
C3_DispatchedEnvelopeEchoesId ==
    (last.verb = "POST" /\ IsEnvelope(last.res.body)) =>
        IF Dispatched(last)
        THEN last.res.body.id = last.req.id
        ELSE last.res.body.id = Null

C3_Witness ==
    /\ Dispatched(last)
    /\ last.req.method = "tools/call"
    /\ last.collab = Closed(0)
    /\ last.req.id = "2"
    /\ last.res.body.id = "2"

----------------------------------------------------------------------------
(* C4, as claimed: an authenticated POST /mcp whose envelope has no id is  *)
(* answered without a body, whatever its method.                           *)
C4_NotificationHasNoBody ==
    (last.verb = "POST" /\ Authorized(last.req.hdr) /\ last.req.id = NoValue)
        => last.res.body = NoBody

----------------------------------------------------------------------------
(* C5: a dispatched tools/call is always answered 200 with a result member *)
(* and no error member; when the tool fails (required argument missing or  *)
(* empty, unknown tool, agent exit code not 0, spawn failure, exception    *)
(* while reading the memory file) the result has isError = TRUE and one    *)
(* text block starting with "Error: "; for an unknown tool the text        *)
(* contains "Unknown tool: " followed by the name.                         *)
ToolArgs(x) == ArgumentsOrEmpty(ParamsOrEmpty(x.req.params).arguments)

ToolName(x) == ParamsOrEmpty(x.req.params).name

ArgumentMissing(x) ==
    \/ ToolName(x) = "ask" /\ ToolArgs(x).message \in {Undefined, Str(<<>>)}
    \/ ToolName(x) = "memory_search" /\ ToolArgs(x).query \in {Undefined, Str(<<>>)}

UnknownTool(x) == ToolName(x) \notin {"ask", "memory_search", "sessions_status"}

CollaboratorFailed(x) ==
    \/ x.collab.kind = "close" /\ x.collab.code # 0
    \/ x.collab.kind = "error"
    \/ x.collab.kind = "read" /\ ~x.collab.ok

ToolFailed(x) == ArgumentMissing(x) \/ UnknownTool(x) \/ CollaboratorFailed(x)

IsToolCall(x) == Dispatched(x) /\ x.req.method = "tools/call"

ErrorFlagged(result) == "isError" \in DOMAIN result /\ result.isError = TRUE

C5_ToolFailureIsResult ==
    IsToolCall(last) =>
        /\ last.res.status = 200
        /\ IsResult(last.res.body)
        /\ ~IsError(last.res.body)
        /\ ToolFailed(last) =>
             /\ ErrorFlagged(last.res.body.result)
             /\ Len(last.res.body.result.content) = 1
             /\ last.res.body.result.content[1].type = "text"
             /\ Head(last.res.body.result.content[1].text) = "Error: "
        /\ UnknownTool(last) =>
             SubSeq(last.res.body.result.content[1].text, 2, 3)
                 = <<"Unknown tool: ", ToolName(last)>>

C5_Witness ==
    /\ IsToolCall(last)
    /\ last.collab.kind = "error"
    /\ ErrorFlagged(last.res.body.result)
    /\ last.res.status = 200

----------------------------------------------------------------------------
(* The lines of a text and the search, stated from positions in the text.  *)

RECURSIVE Ascending(_)
Ascending(S) ==
    IF S = {} THEN <<>>
    ELSE LET m == CHOOSE x \in S : \A y \in S : x <= y
         IN  <<m>> \o Ascending(S \ {m})

\* positions of the line breaks, with the two ends of the text
Breaks(text) ==
    <<0>> \o Ascending({i \in 1..Len(text) : text[i] = "\n"}) \o <<Len(text) + 1>>

LinesOf(text) ==
    LET b == Breaks(text)
    IN  [k \in 1..(Len(b) - 1) |-> SubSeq(text, b[k] + 1, b[k + 1] - 1)]

SameLetter(c, d) == LowerChar(c) = LowerChar(d)

ContainsIgnoringCase(line, q) ==
    \E i \in 0..(Len(line) - Len(q)) : \A j \in 1..Len(q) : SameLetter(line[i + j], q[j])

\* indices of the matching lines of the file, in file order
MatchingLines(text, q) ==
    Ascending({k \in 1..Len(LinesOf(text)) : ContainsIgnoringCase(LinesOf(text)[k], q)})

IsSearch(x) ==
    /\ IsToolCall(x)
    /\ ToolName(x) = "memory_search"
    /\ ToolArgs(x).query.t = "string"
    /\ ToolArgs(x).query.v # <<>>

SearchText(x) == x.res.body.result.content[1].text

----------------------------------------------------------------------------
(* C6: a memory_search on an existing file, read without failure, in which *)
(* at least one line contains the query (ignoring case) returns a text     *)
(* made of the header with the exact number of matching lines of the whole *)
(* file, followed by at most MaxResults lines: the first matching lines of *)
(* the file, in file order.                                                *)
C6_SearchCountAndFirstMatches ==
    (IsSearch(last) /\ memory.exists /\ last.collab = ReadDone(TRUE)) =>
        LET q == ToolArgs(last).query.v
            lines == LinesOf(memory.content)
            hits == MatchingLines(memory.content, q)
            shown == [k \in 1..Min(MaxResults, Len(hits)) |-> lines[hits[k]]]
            text == SearchText(last)
        IN  Len(hits) >= 1 =>
              /\ ~ErrorFlagged(last.res.body.result)
              /\ SubSeq(text, 1, 3)
                    = <<"Encontrados ", ToString(Len(hits)), " resultados:\n\n">>
              /\ LinesOf(SubSeq(text, 4, Len(text))) = shown
              /\ Len(LinesOf(SubSeq(text, 4, Len(text)))) <= MaxResults

C6_Witness ==
    /\ IsSearch(last)
    /\ memory.exists
    /\ last.collab = ReadDone(TRUE)
    /\ Len(MatchingLines(memory.content, ToolArgs(last).query.v)) > MaxResults
    /\ Len(LinesOf(SubSeq(SearchText(last), 4, Len(SearchText(last))))) = MaxResults

----------------------------------------------------------------------------
(* C7, as claimed: with a non-empty query, a memory file that is absent or *)
(* empty yields the fixed "not found" text as a normal text result.        *)
EmptyOrAbsent == ~memory.exists \/ memory.content = <<>>

ReadWentWell(x) == x.collab \in {NoCollab, ReadDone(TRUE)}

C7_Original_EmptyOrAbsentIsNotFound ==
    (IsSearch(last) /\ EmptyOrAbsent /\ ReadWentWell(last)) =>
        /\ ~ErrorFlagged(last.res.body.result)
        /\ SearchText(last) = NotFoundText

(* C7, amended: with a non-empty query, an absent memory file yields the   *)
(* fixed "not found" text and an empty one (read without failure) the "no  *)
(* results" text naming the query; both are normal text results, not       *)
(* error-flagged.                                                          *)
C7_AbsentIsNotFoundEmptyIsNoMatch ==
    (IsSearch(last) /\ EmptyOrAbsent /\ ReadWentWell(last)) =>
        /\ last.res.status = 200
        /\ ~ErrorFlagged(last.res.body.result)
        /\ ~memory.exists => SearchText(last) = NotFoundText
        /\ memory.exists =>
             SearchText(last) = <<"Nenhum resultado encontrado para \"">>
                                \o ToolArgs(last).query.v
                                \o <<"\" na memoria.">>

C7_Witness ==
    /\ IsSearch(last)
    /\ memory.exists
    /\ memory.content = <<>>
    /\ last.collab = ReadDone(TRUE)
    /\ SearchText(last) # NotFoundText
    /\ ~ErrorFlagged(last.res.body.result)

----------------------------------------------------------------------------
(* C8: an authenticated POST /mcp whose jsonrpc member is not "2.0" is     *)
(* answered at once with a JSON-RPC error of code -32600 and the           *)
(* dispatcher is not entered: no session record, no subprocess, no look-up *)
(* of the memory file, whatever the method.                                *)
C8_InvalidVersionRejected ==
    [][(/\ nreq' # nreq
        /\ StepVerb = "POST"
        /\ Authorized(StepRequest.hdr)
        /\ StepRequest.jsonrpc # "2.0")
       => /\ last'.n = nreq'
          /\ IsError(last'.res.body)
          /\ last'.res.body.error.code = -32600
          /\ NoDispatcherEffect]_vars

C8_Witness ==
    /\ last.verb = "POST"
    /\ Authorized(last.req.hdr)
    /\ last.req.jsonrpc = "1.0"
    /\ last.req.method = "initialize"
    /\ last.res.body.error.code = -32600
    /\ last.n = nreq
    /\ sessions = <<>>

----------------------------------------------------------------------------
(* C9: a dispatched request whose method is none of the five known ones is *)
(* answered at once with a JSON-RPC error of code -32601 and changes       *)
(* nothing of the server state; a dispatched request of a known method is  *)
(* never answered with code -32601.                                        *)
AnsweredNotFound(x) == IsError(x.res.body) /\ x.res.body.error.code = -32601

C9_DispatcherTotal ==
    [][/\ (/\ nreq' # nreq
           /\ StepVerb = "POST"
           /\ Authorized(StepRequest.hdr)
           /\ StepRequest.jsonrpc = "2.0"
           /\ StepRequest.method \notin KnownMethods)
          => /\ last'.n = nreq'
             /\ AnsweredNotFound(last')
             /\ NoDispatcherEffect
             /\ memory' = memory
       /\ (Dispatched(last') /\ last'.req.method \in KnownMethods)
          => ~AnsweredNotFound(last')]_vars

C9_Witness ==
    /\ Dispatched(last)
    /\ last.req.method = "notifications/initialized"
    /\ AnsweredNotFound(last)

----------------------------------------------------------------------------
(* C10: the heartbeat timer of a stream is cleared exactly once, when the  *)
(* stream is torn down: an open stream has its timer running and never     *)
(* cleared, a stream that has ended has its timer cleared, once, and no    *)
(* heartbeat is written to a stream that has ended.                        *)
TimerFollowsStream(s) ==
    /\ s.open => (s.keepAlive = "active" /\ s.cleared = 0)
    /\ ~s.open => (s.keepAlive = "cleared" /\ s.cleared = 1)

C10_TimerReleasedOnce ==
    [][/\ \A n \in DOMAIN streams' : TimerFollowsStream(streams'[n])
       /\ \A n \in DOMAIN streams :
            /\ n \in DOMAIN streams'
            /\ ~streams[n].open => streams'[n] = streams[n]
            /\ streams'[n].cleared # streams[n].cleared
                 => (streams[n].open /\ ~streams'[n].open)]_vars

C10_Witness ==
    \E n \in DOMAIN streams :
        /\ ~streams[n].open
        /\ streams[n].beats >= 1
        /\ streams[n].cleared = 1

----------------------------------------------------------------------------
(* C11, as claimed: every dispatched tools/call of ask or sessions_status  *)
(* that passes the validation of the handler (a truthy message for ask)    *)
(* launches exactly one subprocess and is answered only after that         *)
(* subprocess reported close or error.                                     *)
CallName(r) == ParamsOrEmpty(r.params).name

CallArgs(r) == ArgumentsOrEmpty(ParamsOrEmpty(r.params).arguments)

PassesValidation(r) ==
    \/ CallName(r) = "sessions_status"
    \/ CallName(r) = "ask" /\ ~Falsy(CallArgs(r).message)

NonEmptyString(x) == x.t = "string" /\ x.v # <<>>

RunsAgent(r) ==
    \/ CallName(r) = "sessions_status"
    \/ CallName(r) = "ask" /\ NonEmptyString(CallArgs(r).message)

\* the step receives a tools/call that is handed to the dispatcher
ReceivesToolCall ==
    /\ nreq' = nreq + 1
    /\ StepVerb = "POST"
    /\ Authorized(StepRequest.hdr)
    /\ StepRequest.jsonrpc = "2.0"
    /\ StepRequest.method = "tools/call"

Running(n) == n \in DOMAIN procs /\ procs[n].promise = "pending"

\* subprocess n reports close or error in the step, for the first time
ReportsEnd(n) ==
    /\ Running(n)
    /\ n \notin DOMAIN procs' \/ procs'[n].promise # "pending"

OneSubprocessThenOneResponse(Valid(_)) ==
    /\ (ReceivesToolCall /\ Valid(StepRequest)) =>
          /\ spawns' = spawns + 1
          /\ nreq' \notin DOMAIN procs
          /\ nreq' \in DOMAIN procs'
          /\ sent'[nreq'] = 0
          /\ last' = last
    /\ spawns' # spawns => (ReceivesToolCall /\ Valid(StepRequest))
    /\ \A n \in DOMAIN sent :
          /\ sent[n] <= 1
          /\ Running(n) => sent[n] = 0
          /\ sent[n] = 0 => Running(n)
          /\ sent'[n] # sent[n] =>
                /\ ReportsEnd(n)
                /\ sent'[n] = 1
                /\ last'.n = n
                /\ last'.collab.kind \in {"close", "error"}
    /\ \A n \in DOMAIN procs \cap DOMAIN procs' :
          procs'[n].wrote # procs[n].wrote => (last' = last /\ sent' = sent)

----------------------------------------------------------------------------
(* C12: the session map only grows and only initialize writes it. The step *)
(* that dispatches an initialize adds exactly one record, under an id that *)
(* was not in the map, which is the sessionId of the result returned by    *)
(* that call; the record holds the protocolVersion and clientInfo of the   *)
(* request; every record stored before is left as it was. Every other step *)
(* (any other method, a request rejected by authentication or by the       *)
(* version check, a GET, a subprocess or stream event) leaves the map      *)
(* unchanged.                                                              *)
ReceivesInitialize ==
    /\ nreq' = nreq + 1
    /\ StepVerb = "POST"
    /\ Authorized(StepRequest.hdr)
    /\ StepRequest.jsonrpc = "2.0"
    /\ StepRequest.method = "initialize"

SessionAdded(sid) ==
    /\ sid \notin DOMAIN sessions
    /\ DOMAIN sessions' = DOMAIN sessions \cup {sid}
    /\ \A k \in DOMAIN sessions : sessions'[k] = sessions[k]
    /\ sessions'[sid] =
          [initialized |-> TRUE,
           protocolVersion |-> ParamsOrEmpty(StepRequest.params).protocolVersion,
           clientInfo |-> ParamsOrEmpty(StepRequest.params).clientInfo]
    /\ last'.n = nreq'
    /\ IsResult(last'.res.body)
    /\ last'.res.body.result.sessionId = sid

C12_SessionsAppendOnly ==
    [][IF ReceivesInitialize
       THEN \E sid \in DOMAIN sessions' : SessionAdded(sid)
       ELSE sessions' = sessions]_vars

C12_Witness ==
    /\ Cardinality(DOMAIN sessions) = 2
    /\ Dispatched(last)
    /\ last.req.method = "initialize"
    /\ last.res.body.result.sessionId \in DOMAIN sessions
    /\ \E k \in DOMAIN sessions : k # last.res.body.result.sessionId

----------------------------------------------------------------------------
(* C13: tool calls in flight together do not mix. In the step in which     *)
(* subprocess n reports its end, the response that is sent answers the     *)
(* request that launched n, carries that request's id, and its text is     *)
(* made of what subprocess n itself wrote and of its own exit code (the    *)
(* trimmed output, "Success" when that is empty, the exit code followed by *)
(* its error output, or the reason of its spawn failure), whatever the     *)
(* other subprocesses wrote in the meantime.                               *)
ResponseText(x) == x.res.body.result.content[1].text

OwnText(wrote, collab) ==
    IF collab.kind = "close" /\ collab.code = 0
    THEN {IF Trim(wrote.out) = <<>> THEN <<"Success">> ELSE Trim(wrote.out)}
    ELSE IF collab.kind = "close"
    THEN {<<"Error: ", "OpenClaw exited with code ", ToString(collab.code), ": ">>
             \o wrote.err}
    ELSE {<<"Error: ", "Failed to spawn openclaw: ">> \o e : e \in SpawnErrors}

C13_NoCrossTalk ==
    [][\A n \in DOMAIN procs :
          ReportsEnd(n) =>
             /\ last'.n = n
             /\ last'.req = procs[n].req
             /\ IsResult(last'.res.body)
             /\ last'.res.body.id = procs[n].req.id
             /\ ResponseText(last') \in OwnText(procs[n].wrote, last'.collab)]_vars

\* the first call is answered while the second, launched later, has
\* already written output
C13_Witness ==
    /\ IsToolCall(last)
    /\ last.n = 1
    /\ last.collab.kind = "close"
    /\ last.collab.code = 0
    /\ ResponseText(last) = <<"Success">>
    /\ 2 \in DOMAIN procs
    /\ procs[2].wrote.out # <<>>
    /\ procs[2].req.id # last.req.id

----------------------------------------------------------------------------
(* C14: the outcome of a subprocess call is decided once. The first of     *)
(* error and close answers the request: error gives an error-flagged       *)
(* result naming the reason of the spawn failure; close with code 0 gives  *)
(* the collected output without its leading and trailing white space       *)
(* ("Success" when nothing is left); close with another code gives an      *)
(* error-flagged result with the code and the collected error output. An   *)
(* event of a subprocess whose call is already decided changes neither the *)
(* last response nor the number of responses sent.                         *)
IsTrimOf(t, s) ==
    \E i \in 1..(Len(s) + 1) : \E j \in 0..Len(s) :
        /\ t = SubSeq(s, i, j)
        /\ \A k \in 1..Len(s) : (k < i \/ k > j) => IsSpace(s[k])
        /\ t # <<>> => (~IsSpace(t[1]) /\ ~IsSpace(t[Len(t)]))

Decides(n) ==
    /\ last'.n = n
    /\ sent'[n] = sent[n] + 1
    /\ IsResult(last'.res.body)
    /\ last'.collab.kind \in {"error", "close"}
    /\ last'.collab.kind = "error" =>
          /\ ErrorFlagged(last'.res.body.result)
          /\ \E e \in SpawnErrors :
                ResponseText(last') = <<"Error: ", "Failed to spawn openclaw: ">> \o e
    /\ (last'.collab.kind = "close" /\ last'.collab.code = 0) =>
          /\ ~ErrorFlagged(last'.res.body.result)
          /\ \/ IsTrimOf(ResponseText(last'), procs[n].stdout)
             \/ /\ IsTrimOf(<<>>, procs[n].stdout)
                /\ ResponseText(last') = <<"Success">>
    /\ (last'.collab.kind = "close" /\ last'.collab.code # 0) =>
          /\ ErrorFlagged(last'.res.body.result)
          /\ ResponseText(last') =
                <<"Error: ", "OpenClaw exited with code ",
                  ToString(last'.collab.code), ": ">> \o procs[n].stderr

C14_OutcomeDecidedOnce ==
    [][\A n \in DOMAIN procs :
          /\ ReportsEnd(n) => Decides(n)
          /\ (procs[n].promise # "pending"
                 /\ (n \notin DOMAIN procs' \/ procs'[n] # procs[n]))
                => (last' = last /\ sent' = sent)]_vars

\* the close that follows a failed spawn has been handled
C14_Witness ==
    /\ IsToolCall(last)
    /\ last.collab.kind = "error"
    /\ last.n \notin DOMAIN procs
    /\ sent[last.n] = 1
    /\ ErrorFlagged(last.res.body.result)

----------------------------------------------------------------------------
(* C15: for the same tool name, the same arguments value (absent           *)
(* included), the same memory file and read outcome and the same behaviour *)
(* of the agent subprocess, the result returned by the CallTool handler of *)
(* the SDK variant (content, isError) is the result member of the          *)
(* envelope the hand-rolled variant answers to tools/call.                 *)
C15_VariantsAgree ==
    sdk # NoSdk =>
        /\ IsToolCall(last)
        /\ last.req.params = sdk.params
        /\ IsResult(last.res.body)
        /\ sdk.result = last.res.body.result

\* both variants report the missing message when arguments is absent
C15_Witness ==
    /\ sdk # NoSdk
    /\ sdk.params.name = "ask"
    /\ sdk.params.arguments = Undefined
    /\ ErrorFlagged(sdk.result)
    /\ sdk.result.content[1].text = <<"Error: ", "Missing 'message' argument">>
    /\ last.res.body.result = sdk.result

============================================================================
